---- MODULE Spec2Model ----
(***************************************************************************)
(* Delta-neutral position log: the single-file CLI (run.py) and the        *)
(* PositionManager / Textual TUI variant (pilk_dn_log).                    *)
(*                                                                         *)
(* Numbers: the program computes with binary floats.  Here size, delta,    *)
(* hedge and band are integers in fixed units (hedge and band in units of  *)
(* size-unit * delta-unit), and every product, difference and sum is       *)
(* rounded as a float rounds it, to the nearest number with FloatBits      *)
(* significant bits, ties to even.  A result below 2^FloatBits is exact.   *)
(*                                                                         *)
(* Records: a position keeps the fields the handlers read or the claims    *)
(* name.  The display fields (name, strike, expiry), start_time/created_at *)
(* and, in the active set, updated_at are left out; the close stamps       *)
(* (end_time, updated_at of an archived position) are kept.                *)
(*                                                                         *)
(* Files: a JSON file is a record [st, data]; st is "missing" (no file),   *)
(* "corrupt" (a file json.load cannot parse, e.g. one truncated by         *)
(* open(..., 'w')) or "ok" (a file holding the list data).                 *)
(***************************************************************************)
EXTENDS Integers, Sequences, FiniteSets, TLC

(* ------------------------------ bounds -------------------------------- *)
\* records in the store, active and archived together
MaxRecords == 2
\* confirmed rehedges of one position
MaxTrades == 1
\* seconds the wall clock advances
MaxClock == 1
\* entries of the PositionManager history
MaxArchived == 1
\* the inputs of a single hedge computation (SpecMath)
MaxSize == 2
MaxBand == 3
MaxDelta == 2
\* significant bits of a float (53 in the program's doubles)
FloatBits == 9

OptionTypes == {"call", "put"}
\* the inputs the operator gives to the handlers of the store
Sizes == {2}
Bands == {2}
Deltas == {-1, 2, 3}
\* what the operator may type at a (y/n) prompt
Answers == {"y", "n"}
Ids == 1..MaxRecords

VARIABLES
    dataFile,       \* run.py DATA_FILE      (sniper_trade.json)
    historyFile,    \* run.py HISTORY_FILE   (trade_history.json)
    positionsFile,  \* positions.py POSITIONS_FILE (~/.pilk/dn_positions.json)
    pmHistoryFile,  \* positions.py HISTORY_FILE   (~/.pilk/dn_history.json)
    mainPositions,  \* tui.py MainScreen.positions, the list the table shows
    selected,       \* tui.py: index in that list of the PositionDetailScreen's
                    \* position (the same object), 0 on the main screen
    now,            \* datetime.now(), in seconds
    pc,             \* where the running handler is, between its file writes
    frame,          \* the running handler's locals
    calc,           \* a hedge computation: its inputs and its result
    lastOp          \* the handler that ran last, its inputs and what it reported

cliVars == <<dataFile, historyFile>>
pmVars == <<positionsFile, pmHistoryFile, mainPositions, selected>>
stepVars == <<pc, frame>>
vars == <<dataFile, historyFile, positionsFile, pmHistoryFile, mainPositions,
          selected, now, pc, frame, calc, lastOp>>

(* ----------------------------- helpers -------------------------------- *)
abs(x) == IF x < 0 THEN -x ELSE x

\* a prompt answered with anything is taken for a yes
LowerAlwaysYes(s) == "y"

\* str.lower() on the answers the operator can give
Lower(s) == IF s = "Y" THEN "y" ELSE s

\* the spacing of the floats around the magnitude m
RECURSIVE Ulp(_, _)
Ulp(m, u) == IF m < (2 ^ FloatBits) * u THEN u ELSE Ulp(m, 2 * u)

\* a magnitude rounded to the nearest float, ties to the even significand
RoundNat(m) ==
    LET u == Ulp(m, 1)
        q == m \div u
        r == m % u
    IN  IF 2 * r > u \/ (2 * r = u /\ q % 2 = 1) THEN (q + 1) * u ELSE q * u

fl(x) == IF x < 0 THEN -RoundNat(-x) ELSE RoundNat(x)

\* float.__mul__, __sub__, __add__
fmul(a, b) == fl(a * b)
fsub(a, b) == fl(a - b)
fadd(a, b) == fl(a + b)

MissingFile == [st |-> "missing", data |-> <<>>]
CorruptFile == [st |-> "corrupt", data |-> <<>>]
\* a file that holds the text of these records and does not parse (a write
\* that was cut short, a damaged byte)
Unreadable(content) == [st |-> "corrupt", data |-> content]
\* json.dump(content, f) completed on a file opened with 'w'
Dump(content) == [st |-> "ok", data |-> content]

\* the file is read without the try/except and the existence test
load_positionsUnchecked(f) == f.data

\* an id that matches no record selects the first record
FirstIndexOrFirst(positions, pos_id) ==
    IF \E i \in 1..Len(positions) : positions[i].id = pos_id
    THEN CHOOSE i \in 1..Len(positions) :
            /\ positions[i].id = pos_id
            /\ \A j \in 1..(i - 1) : positions[j].id # pos_id
    ELSE IF positions = <<>> THEN 0 ELSE 1

\* index of the first record of positions with this id, 0 if there is none
FirstIndex(positions, pos_id) ==
    IF \E i \in 1..Len(positions) : positions[i].id = pos_id
    THEN CHOOSE i \in 1..Len(positions) :
            /\ positions[i].id = pos_id
            /\ \A j \in 1..(i - 1) : positions[j].id # pos_id
    ELSE 0

IdsOf(positions) == {positions[i].id : i \in 1..Len(positions)}

MaxOf(S) == CHOOSE m \in S : \A x \in S : x <= m

(* ------------------------------ run.py -------------------------------- *)
load_positions(f) == IF f.st = "ok" THEN f.data ELSE <<>>

save_positions(positions) == Dump(positions)

HasPosition(f, pos_id) == FirstIndex(load_positions(f), pos_id) # 0

get_position_by_id(f, pos_id) ==
    load_positions(f)[FirstIndex(load_positions(f), pos_id)]

\* the file is written back without filtering
remove_positionKeepsAll(f, pos_id) == Dump(IF f.st = "ok" THEN f.data ELSE <<>>)

remove_position(f, pos_id) ==
    save_positions(SelectSeq(load_positions(f), LAMBDA p : p.id # pos_id))

generate_id(f) ==
    IF load_positions(f) = <<>> THEN 1
    ELSE MaxOf(IdsOf(load_positions(f))) + 1

\* the starting hedge is long whatever the option type
required_hedgeUnsigned(option_type, size, entry_delta) == fmul(size, entry_delta)

\* new_trade, "2. CALCULATE STARTING HEDGE"
required_hedge(option_type, size, entry_delta) ==
    IF option_type = "call" THEN -fmul(size, entry_delta)
    ELSE fmul(size, entry_delta)

\* the target follows the sign of the observed delta
target_hedgeSigned(position, current_delta) ==
    IF position.type = "call"
    THEN -fmul(position.size, current_delta)
    ELSE fmul(position.size, current_delta)

\* update_delta, "CALCULATE MATH"
target_hedge(position, current_delta) ==
    IF position.type = "call"
    THEN -fmul(position.size, abs(current_delta))
    ELSE fmul(position.size, abs(current_delta))

\* the alert also fires on the band itself
NeedsRehedgeInclusive(diff, band) == abs(diff) >= band

\* update_delta, "DECISION LOGIC": the rehedge alert
NeedsRehedge(diff, band) == abs(diff) > band

\* the two actions swapped
RehedgeActionSwapped(diff) == IF diff > 0 THEN "SELL / SHORT" ELSE "BUY / LONG"

\* update_delta: the action printed with the alert
RehedgeAction(diff) == IF diff > 0 THEN "BUY / LONG" ELSE "SELL / SHORT"

\* update_delta, from "CALCULATE MATH" to the alert: what it computes and prints
decision(position, current_delta) ==
    LET target == target_hedge(position, current_delta)
        diff == fsub(target, position.current_hedge_pos)
    IN  [target |-> target, diff |-> diff,
         needed |-> NeedsRehedge(diff, position.band),
         action |-> IF NeedsRehedge(diff, position.band)
                    THEN RehedgeAction(diff) ELSE "",
         amount |-> abs(diff)]

\* every record is replaced
ReplaceEvery(positions, pos_id, position) ==
    [i \in 1..Len(positions) |-> position]

\* positions[i] = position at the first record with this id
ReplaceFirst(positions, pos_id, position) ==
    [i \in 1..Len(positions) |->
        IF i = FirstIndex(positions, pos_id) THEN position ELSE positions[i]]

NoOp == [op |-> "none", id |-> 0, delta |-> 0, confirm |-> "", outcome |-> ""]

NoFrame == [id |-> 0, file |-> "", content |-> <<>>, before |-> MissingFile,
            next |-> ""]
NoCalc == [fn |-> "none"]

Init ==
    /\ dataFile = MissingFile
    /\ historyFile = MissingFile
    /\ positionsFile = MissingFile
    /\ pmHistoryFile = MissingFile
    /\ mainPositions = <<>>
    /\ selected = 0
    /\ now = 0
    /\ pc = "idle"
    /\ frame = NoFrame
    /\ calc = NoCalc
    /\ lastOp = NoOp

Tick ==
    /\ now < MaxClock
    /\ now' = now + 1
    /\ UNCHANGED <<cliVars, pmVars, stepVars, calc, lastOp>>

new_trade(option_type, band, entry_delta, size, confirm) ==
    LET hedge == required_hedge(option_type, size, entry_delta)
        pos_id == generate_id(dataFile)
        position == [id |-> pos_id, type |-> option_type, size |-> size,
                     band |-> band, current_hedge_pos |-> hedge,
                     trades_count |-> 0, last_delta |-> entry_delta]
    IN  IF Lower(confirm) # "y"
        THEN /\ lastOp' = [NoOp EXCEPT !.op = "new_trade",
                                       !.confirm = confirm,
                                       !.outcome = "cancelled"]
             /\ UNCHANGED <<dataFile, historyFile, pmVars, now, stepVars, calc>>
        ELSE /\ Len(load_positions(dataFile)) + Len(load_positions(historyFile))
                    < MaxRecords
             /\ dataFile' = save_positions(Append(load_positions(dataFile), position))
             /\ lastOp' = [NoOp EXCEPT !.op = "new_trade", !.id = pos_id,
                                       !.delta = entry_delta,
                                       !.confirm = confirm,
                                       !.outcome = "saved"]
             /\ UNCHANGED <<historyFile, pmVars, now, stepVars, calc>>

update_delta(pos_id, current_delta, confirm) ==
    IF ~HasPosition(dataFile, pos_id)
    THEN /\ lastOp' = [NoOp EXCEPT !.op = "update_delta", !.id = pos_id,
                                   !.outcome = "not_found"]
         /\ UNCHANGED <<dataFile, historyFile, pmVars, now, stepVars, calc>>
    ELSE
    LET position == get_position_by_id(dataFile, pos_id)
        diff == decision(position, current_delta).diff
        rehedged == [position EXCEPT
                        !.current_hedge_pos = fadd(position.current_hedge_pos, diff),
                        !.trades_count = position.trades_count + 1,
                        !.last_delta = current_delta]
        observed == [position EXCEPT !.last_delta = current_delta]
        op == [NoOp EXCEPT !.op = "update_delta", !.id = pos_id,
                           !.delta = current_delta]
    IN  IF decision(position, current_delta).needed
        THEN IF Lower(confirm) = "y"
             THEN /\ position.trades_count < MaxTrades
                  /\ dataFile' = save_positions(
                        ReplaceFirst(load_positions(dataFile), pos_id, rehedged))
                  /\ lastOp' = [op EXCEPT !.confirm = confirm,
                                          !.outcome = "rehedged"]
                  /\ UNCHANGED <<historyFile, pmVars, now, stepVars, calc>>
             ELSE /\ lastOp' = [op EXCEPT !.confirm = confirm,
                                          !.outcome = "declined"]
                  /\ UNCHANGED <<dataFile, historyFile, pmVars, now, stepVars, calc>>
        ELSE /\ dataFile' = save_positions(
                    ReplaceFirst(load_positions(dataFile), pos_id, observed))
             /\ lastOp' = [op EXCEPT !.outcome = "safe"]
             /\ UNCHANGED <<historyFile, pmVars, now, stepVars, calc>>

\* the archived entry carries a counter reset to 0
archiveResetCount(h, position, end_time) ==
    Append(IF h.st = "ok" THEN h.data ELSE <<>>,
           [id |-> position.id, type |-> position.type, size |-> position.size,
            band |-> position.band,
            current_hedge_pos |-> position.current_hedge_pos,
            trades_count |-> 0,
            last_delta |-> position.last_delta, end_time |-> end_time])

\* close_position, "Archive to history": the list written to HISTORY_FILE
archive(h, position, end_time) ==
    Append(IF h.st = "ok" THEN h.data ELSE <<>>,
           [id |-> position.id, type |-> position.type, size |-> position.size,
            band |-> position.band,
            current_hedge_pos |-> position.current_hedge_pos,
            trades_count |-> position.trades_count,
            last_delta |-> position.last_delta, end_time |-> end_time])

close_position(pos_id, confirm) ==
    IF ~HasPosition(dataFile, pos_id)
    THEN /\ lastOp' = [NoOp EXCEPT !.op = "close_position", !.id = pos_id,
                                   !.outcome = "not_found"]
         /\ UNCHANGED <<dataFile, historyFile, pmVars, now, stepVars, calc>>
    ELSE IF Lower(confirm) # "y"
    THEN /\ lastOp' = [NoOp EXCEPT !.op = "close_position", !.id = pos_id,
                                   !.confirm = confirm,
                                   !.outcome = "cancelled"]
         /\ UNCHANGED <<dataFile, historyFile, pmVars, now, stepVars, calc>>
    ELSE /\ historyFile' =
                Dump(archive(historyFile, get_position_by_id(dataFile, pos_id), now))
         /\ dataFile' = remove_position(dataFile, pos_id)
         /\ lastOp' = [NoOp EXCEPT !.op = "close_position", !.id = pos_id,
                                   !.confirm = confirm,
                                   !.outcome = "archived"]
         /\ UNCHANGED <<pmVars, now, stepVars, calc>>

Next ==
    \/ \E t \in OptionTypes, b \in Bands, d \in Deltas, s \in Sizes, c \in Answers :
          new_trade(t, b, d, s, c)
    \/ \E i \in Ids, d \in Deltas, c \in Answers : update_delta(i, d, c)
    \/ \E i \in Ids, c \in Answers : close_position(i, c)

Spec == Init /\ [][Next]_vars

(* ------------- run.py on deltas far apart (SpecRound) ------------------ *)
\* The CLI with an entry delta and an observed delta so far apart that their
\* difference is not a float: the entry delta is the largest even number of
\* FloatBits + 1 bits, the other delta is one unit (as 0.7 and 0.1 are for
\* the program's doubles).
BigDelta == 2 ^ (FloatBits + 1) - 2
RoundDeltas == {1, BigDelta}
RoundBands == {0, 2}
RoundSizes == {1}

NextRound ==
    \/ \E t \in OptionTypes, b \in RoundBands, s \in RoundSizes, c \in Answers :
          new_trade(t, b, BigDelta, s, c)
    \/ \E i \in Ids, d \in RoundDeltas, c \in Answers : update_delta(i, d, c)
    \/ \E i \in Ids, c \in Answers : close_position(i, c)

SpecRound == Init /\ [][NextRound]_vars

(* ------------- run.py on the documented example (SpecScenario) --------- *)
\* The CLI on the inputs of the worked example: a call of size 0.1 entered at
\* delta 0.5 with band 0.0038, then deltas 0.55 and 0.52.  Units: size 0.1,
\* delta 0.002, hedge and band 0.0002 (so the band is 19, the deltas 250, 275
\* and 260, and the hedges -250, -275 and -260).
ScenarioDeltas == {275, 260}

NextScenario ==
    \/ \E c \in Answers : new_trade("call", 19, 250, 1, c)
    \/ \E i \in Ids, d \in ScenarioDeltas, c \in Answers : update_delta(i, d, c)
    \/ \E i \in Ids, c \in Answers : close_position(i, c)

SpecScenario == Init /\ [][NextScenario]_vars

(* --------------------- pilk_dn_log/positions.py ----------------------- *)
\* Position.target_hedge (property): the target at the entry delta
Position_target_hedge(pos) ==
    IF pos.option_type = "call"
    THEN -fmul(pos.size, pos.entry_delta)
    ELSE fmul(pos.size, pos.entry_delta)

\* Position.calculate_target_hedge
calculate_target_hedge(pos, current_delta) ==
    IF pos.option_type = "call"
    THEN -fmul(pos.size, current_delta)
    ELSE fmul(pos.size, current_delta)

\* Position.check_rehedge: (needs_rehedge, amount, action)
check_rehedge(pos, current_delta) ==
    LET target == calculate_target_hedge(pos, current_delta)
        diff == fsub(target, pos.current_hedge)
        abs_diff == abs(diff)
    IN  IF abs_diff > pos.band
        THEN [needed |-> TRUE, amount |-> abs_diff,
              action |-> IF diff > 0 THEN "BUY" ELSE "SELL"]
        ELSE [needed |-> FALSE, amount |-> 0, action |-> ""]

\* PositionManager.load_positions
PM_load_positions(f) ==
    IF f.st = "ok" THEN SelectSeq(f.data, LAMBDA p : p.is_active) ELSE <<>>

\* the list passed is written as it is
PM_save_positionsAsPassed(f, positions) == Dump(positions)

\* PositionManager.save_positions: the file as it is after the call
PM_save_positions(f, positions) ==
    LET all_positions == IF f.st = "ok" THEN f.data ELSE <<>>
        active_ids == IdsOf(positions)
    IN  Dump(positions \o SelectSeq(all_positions, LAMBDA p : p.id \notin active_ids))

\* PositionManager.add_position
PM_add_position(f, pos) == PM_save_positions(f, Append(PM_load_positions(f), pos))

\* PositionManager.update_position
PM_update_position(f, pos) ==
    PM_save_positions(f, ReplaceFirst(PM_load_positions(f), pos.id, pos))

\* PositionManager._archive_position: the history file after the call
PM_archive_position(h, pos) ==
    Dump(Append(IF h.st = "ok" THEN h.data ELSE <<>>, pos))

\* PositionManager.close_position: the position it archives, as archived
PM_closed(f, pos_id, t) ==
    [PM_load_positions(f)[FirstIndex(PM_load_positions(f), pos_id)]
        EXCEPT !.is_active = FALSE] @@ [updated_at |-> t]

\* PositionManager.close_position: the history file after the call
PM_close_history(f, h, pos_id, t) ==
    IF FirstIndex(PM_load_positions(f), pos_id) # 0
    THEN PM_archive_position(h, PM_closed(f, pos_id, t))
    ELSE h

\* PositionManager.close_position: the positions file after the call
PM_close_position(f, pos_id) ==
    PM_save_positions(f, SelectSeq(PM_load_positions(f), LAMBDA p : p.id # pos_id))

\* PositionManager.generate_id: strftime("%Y%m%d-%H%M%S") of the clock
PM_generate_id(t) == t

\* PositionManager.make_binance_symbol: None unless expiry starts with a day
\* number followed by three letters
make_binance_symbol(expiry) ==
    IF expiry = "27FEB" THEN "BTC-260227" ELSE "None"

\* NewPositionModal.on_add, "Calculate initial hedge"
initial_hedge(opt_type, size, entry_delta) ==
    IF opt_type = "call" THEN -fmul(size, entry_delta) ELSE fmul(size, entry_delta)

(* ------------------------ pilk_dn_log/tui.py -------------------------- *)
Expiries == {"", "27FEB"}
Strikes == {0, 70000}
\* what the operator may type in the manual delta modal; "None" is Cancel
DeltaStrs == {"-1", "2", "3", "abc", "None"}

\* float(delta_str) where it succeeds
float(str) == CASE str = "-1" -> -1 [] str = "2" -> 2 [] str = "3" -> 3

TuiOp(name) == [NoOp EXCEPT !.op = name]

\* MainScreen._load_positions (on_mount, on_refresh)
MainScreen_load_positions ==
    /\ selected = 0
    /\ mainPositions' = PM_load_positions(positionsFile)
    /\ lastOp' = TuiOp("load_positions")
    /\ UNCHANGED <<cliVars, positionsFile, pmHistoryFile, selected, now, stepVars, calc>>

\* NewPositionModal.on_add; numeric: every float(...) of the form succeeds
on_add(expiry, opt_type, strike, size, entry_delta, band, numeric) ==
    /\ selected = 0
    /\ IF ~numeric \/ expiry = "" \/ strike = 0 \/ size = 0
       THEN /\ lastOp' = [TuiOp("on_add") EXCEPT !.outcome = "invalid"]
            /\ UNCHANGED <<cliVars, pmVars, now, stepVars, calc>>
       ELSE LET pos == [id |-> PM_generate_id(now), option_type |-> opt_type,
                        size |-> size, entry_delta |-> entry_delta,
                        band |-> band,
                        current_hedge |-> initial_hedge(opt_type, size, entry_delta),
                        rehedge_count |-> 0,
                        is_active |-> TRUE,
                        binance_symbol |-> make_binance_symbol(expiry)]
            IN  /\ Len(load_positions(positionsFile)) < MaxRecords
                /\ positionsFile' = PM_add_position(positionsFile, pos)
                /\ mainPositions' = PM_load_positions(positionsFile')
                /\ lastOp' = [TuiOp("on_add") EXCEPT !.id = pos.id,
                                                     !.delta = entry_delta,
                                                     !.outcome = "saved"]
                /\ UNCHANGED <<cliVars, pmHistoryFile, selected, now, stepVars, calc>>

\* MainScreen.on_row_selected
on_row_selected(row_index) ==
    /\ selected = 0
    /\ row_index \in 1..Len(mainPositions)
    /\ selected' = row_index
    /\ lastOp' = TuiOp("on_row_selected")
    /\ UNCHANGED <<cliVars, positionsFile, pmHistoryFile, mainPositions, now,
                   stepVars, calc>>

\* PositionDetailScreen.on_back
on_back ==
    /\ selected # 0
    /\ selected' = 0
    /\ lastOp' = TuiOp("on_back")
    /\ UNCHANGED <<cliVars, positionsFile, pmHistoryFile, mainPositions, now,
                   stepVars, calc>>

\* PositionDetailScreen.on_refresh; delta is what the market-data source returns
on_refresh(delta) ==
    /\ selected # 0
    /\ LET position == mainPositions[selected]
           r == check_rehedge(position, delta)
       IN  lastOp' =
             IF position.binance_symbol = "None"
             THEN [TuiOp("on_refresh") EXCEPT !.id = position.id,
                                              !.outcome = "no_symbol"]
             ELSE [TuiOp("on_refresh") EXCEPT
                      !.id = position.id, !.delta = delta,
                      !.outcome = IF r.needed THEN "rehedge_needed" ELSE "safe"]
    /\ UNCHANGED <<cliVars, pmVars, now, stepVars, calc>>

\* PositionDetailScreen._apply_manual_delta
apply_manual_delta(delta_str) ==
    /\ selected # 0
    /\ IF delta_str \in {"abc", "None"}
       THEN \* float() raises: ValueError is passed over, TypeError ends the callback
            /\ lastOp' = [TuiOp("apply_manual_delta") EXCEPT
                            !.id = mainPositions[selected].id,
                            !.outcome = IF delta_str = "None" THEN "type_error"
                                        ELSE "value_error"]
            /\ UNCHANGED <<cliVars, pmVars, now, stepVars, calc>>
       ELSE LET position == mainPositions[selected]
                delta == float(delta_str)
                r == check_rehedge(position, delta)
                target == calculate_target_hedge(position, delta)
                rehedged == [position EXCEPT
                                !.current_hedge = target,
                                !.rehedge_count = position.rehedge_count + 1]
                op == [TuiOp("apply_manual_delta") EXCEPT
                          !.id = position.id, !.delta = delta]
            IN  IF r.needed
                THEN /\ position.rehedge_count < MaxTrades
                     /\ mainPositions' = [mainPositions EXCEPT ![selected] = rehedged]
                     /\ positionsFile' = PM_update_position(positionsFile, rehedged)
                     /\ lastOp' = [op EXCEPT !.outcome = "rehedged"]
                     /\ UNCHANGED <<cliVars, pmHistoryFile, selected, now,
                                    stepVars, calc>>
                ELSE /\ lastOp' = [op EXCEPT !.outcome = "safe"]
                     /\ UNCHANGED <<cliVars, pmVars, now, stepVars, calc>>

\* PositionDetailScreen.on_close
on_close ==
    /\ selected # 0
    /\ LET pos_id == mainPositions[selected].id IN
          /\ Len(load_positions(pmHistoryFile)) < MaxArchived
          /\ pmHistoryFile' = PM_close_history(positionsFile, pmHistoryFile, pos_id, now)
          /\ positionsFile' = PM_close_position(positionsFile, pos_id)
          /\ lastOp' = [TuiOp("on_close") EXCEPT
                          !.id = pos_id,
                          !.outcome =
                             IF FirstIndex(PM_load_positions(positionsFile), pos_id) # 0
                             THEN "archived" ELSE "not_found"]
    /\ selected' = 0
    /\ UNCHANGED <<cliVars, mainPositions, now, stepVars, calc>>

NextTUI ==
    \/ Tick
    \/ MainScreen_load_positions
    \/ \E e \in Expiries, t \in OptionTypes, k \in Strikes, s \in Sizes \cup {0},
          d \in Deltas, b \in Bands, n \in BOOLEAN : on_add(e, t, k, s, d, b, n)
    \/ \E i \in 1..MaxRecords : on_row_selected(i)
    \/ on_back
    \/ \E d \in Deltas : on_refresh(d)
    \/ \E str \in DeltaStrs : apply_manual_delta(str)
    \/ on_close

SpecTUI == Init /\ [][NextTUI]_vars

(* ------------- creation on the files found at start (SpecCreate) ------- *)
\* The two creation handlers, new_trade and NewPositionModal.on_add, with the
\* sizes and bands an operator can type (get_float and float() accept any
\* number), started on active files that are missing, empty after a cut-short
\* write, or unreadable.
CreateSizes == {-1, 0, 2}
CreateBands == {-1, 0, 2}
CreateDeltas == {2}
CreateTypes == {"call"}

\* a record an earlier run stored in sniper_trade.json
OldTrade == [id |-> 1, type |-> "call", size |-> 2, band |-> 2,
             current_hedge_pos |-> -4, trades_count |-> 0, last_delta |-> 2]
\* a record an earlier run stored in dn_positions.json
OldPosition == [id |-> 0, option_type |-> "call", size |-> 2, entry_delta |-> 2,
                band |-> 2, current_hedge |-> -4, rehedge_count |-> 0,
                is_active |-> TRUE, binance_symbol |-> "BTC-260227"]

InitCreate ==
    /\ \E found \in {"missing", "empty", "unreadable"} :
          /\ dataFile = CASE found = "missing" -> MissingFile
                           [] found = "empty" -> CorruptFile
                           [] found = "unreadable" -> Unreadable(<<OldTrade>>)
          /\ positionsFile = CASE found = "missing" -> MissingFile
                                [] found = "empty" -> CorruptFile
                                [] found = "unreadable" -> Unreadable(<<OldPosition>>)
    /\ historyFile = MissingFile
    /\ pmHistoryFile = MissingFile
    /\ mainPositions = <<>>
    /\ selected = 0
    /\ now = 0
    /\ pc = "idle"
    /\ frame = NoFrame
    /\ calc = NoCalc
    /\ lastOp = NoOp

NextCreate ==
    \/ \E t \in CreateTypes, b \in CreateBands, d \in CreateDeltas,
          s \in CreateSizes, c \in Answers : new_trade(t, b, d, s, c)
    \/ \E t \in CreateTypes, s \in CreateSizes, d \in CreateDeltas,
          b \in CreateBands, n \in BOOLEAN :
          on_add("27FEB", t, 70000, s, d, b, n)

SpecCreate == InitCreate /\ [][NextCreate]_vars

(* ------------- PositionManager called directly (SpecPM) --------------- *)
\* The public methods of PositionManager, called by any client with any
\* position or id, on files found missing or unreadable.  None of the three
\* raises or returns a value: what the caller sees is "returned".
PMIds == {0, 1}
PMHedges == {-4, -2}
PMPositions ==
    {[OldPosition EXCEPT !.id = i, !.current_hedge = h] : i \in PMIds, h \in PMHedges}

\* an entry an earlier run archived in dn_history.json
OldArchived == [OldPosition EXCEPT !.is_active = FALSE] @@ [updated_at |-> 0]

InitPM ==
    /\ dataFile = MissingFile
    /\ historyFile = MissingFile
    /\ positionsFile \in {MissingFile, Unreadable(<<OldPosition>>)}
    /\ pmHistoryFile \in {MissingFile, Unreadable(<<OldArchived>>)}
    /\ mainPositions = <<>>
    /\ selected = 0
    /\ now = 0
    /\ pc = "idle"
    /\ frame = NoFrame
    /\ calc = NoCalc
    /\ lastOp = NoOp

PMOp(name, pos_id) == [NoOp EXCEPT !.op = name, !.id = pos_id, !.outcome = "returned"]

\* PositionManager.add_position(pos)
pm_add_position(pos) ==
    /\ Len(load_positions(positionsFile)) < MaxRecords
    /\ positionsFile' = PM_add_position(positionsFile, pos)
    /\ lastOp' = PMOp("add_position", pos.id)
    /\ UNCHANGED <<cliVars, pmHistoryFile, mainPositions, selected, now, stepVars, calc>>

\* PositionManager.update_position(pos)
pm_update_position(pos) ==
    /\ positionsFile' = PM_update_position(positionsFile, pos)
    /\ lastOp' = PMOp("update_position", pos.id)
    /\ UNCHANGED <<cliVars, pmHistoryFile, mainPositions, selected, now, stepVars, calc>>

\* PositionManager.close_position(pos_id)
pm_close_position(pos_id) ==
    /\ FirstIndex(PM_load_positions(positionsFile), pos_id) # 0
          => Len(load_positions(pmHistoryFile)) < MaxArchived
    /\ pmHistoryFile' = PM_close_history(positionsFile, pmHistoryFile, pos_id, now)
    /\ positionsFile' = PM_close_position(positionsFile, pos_id)
    /\ lastOp' = PMOp("close_position", pos_id)
    /\ UNCHANGED <<cliVars, mainPositions, selected, now, stepVars, calc>>

NextPM ==
    \/ \E pos \in PMPositions : pm_add_position(pos)
    \/ \E pos \in PMPositions : pm_update_position(pos)
    \/ \E i \in PMIds : pm_close_position(i)

SpecPM == InitPM /\ [][NextPM]_vars

(* ------------- run.py, one step per file write (SpecSteps) ------------- *)
\* The handlers of run.py again, on their paths that write: a write is
\* open(file, 'w'), which leaves the file existing and empty, and then
\* json.dump.  frame holds the locals of the running handler: the file it is
\* about to write, the list it will dump, what the file held before, and what
\* follows the write.
FileOf(name) == IF name = "data" THEN dataFile ELSE historyFile

\* new_trade down to save_positions(positions)
step_new_trade(option_type, band, entry_delta, size, confirm) ==
    LET pos_id == generate_id(dataFile)
        position == [id |-> pos_id, type |-> option_type, size |-> size,
                     band |-> band,
                     current_hedge_pos |-> required_hedge(option_type, size, entry_delta),
                     trades_count |-> 0, last_delta |-> entry_delta]
    IN  /\ pc = "idle"
        /\ Lower(confirm) = "y"
        /\ Len(load_positions(dataFile)) + Len(load_positions(historyFile))
              < MaxRecords
        /\ frame' = [id |-> pos_id, file |-> "data",
                     content |-> Append(load_positions(dataFile), position),
                     before |-> dataFile, next |-> "done"]
        /\ pc' = "open"
        /\ lastOp' = [NoOp EXCEPT !.op = "new_trade", !.id = pos_id,
                                  !.confirm = confirm, !.outcome = "running"]
        /\ UNCHANGED <<cliVars, pmVars, now, calc>>

\* update_delta down to save_positions(positions), on either branch that saves
step_update_delta(pos_id, current_delta, confirm) ==
    /\ pc = "idle"
    /\ HasPosition(dataFile, pos_id)
    /\ LET position == get_position_by_id(dataFile, pos_id)
           r == decision(position, current_delta)
           rehedged == [position EXCEPT
                           !.current_hedge_pos = fadd(position.current_hedge_pos, r.diff),
                           !.trades_count = position.trades_count + 1,
                           !.last_delta = current_delta]
           observed == [position EXCEPT !.last_delta = current_delta]
       IN  /\ r.needed => (Lower(confirm) = "y" /\ position.trades_count < MaxTrades)
           /\ frame' = [id |-> pos_id, file |-> "data",
                        content |-> ReplaceFirst(load_positions(dataFile), pos_id,
                                        IF r.needed THEN rehedged ELSE observed),
                        before |-> dataFile, next |-> "done"]
    /\ pc' = "open"
    /\ lastOp' = [NoOp EXCEPT !.op = "update_delta", !.id = pos_id,
                              !.delta = current_delta, !.outcome = "running"]
    /\ UNCHANGED <<cliVars, pmVars, now, calc>>

\* close_position down to open(HISTORY_FILE, 'w')
step_close_position(pos_id, confirm) ==
    /\ pc = "idle"
    /\ HasPosition(dataFile, pos_id)
    /\ Lower(confirm) = "y"
    /\ frame' = [id |-> pos_id, file |-> "history",
                 content |-> archive(historyFile,
                                     get_position_by_id(dataFile, pos_id), now),
                 before |-> historyFile, next |-> "remove_position"]
    /\ pc' = "open"
    /\ lastOp' = [NoOp EXCEPT !.op = "close_position", !.id = pos_id,
                              !.confirm = confirm, !.outcome = "running"]
    /\ UNCHANGED <<cliVars, pmVars, now, calc>>

\* open(file, 'w'): the file exists and is empty
step_open ==
    /\ pc = "open"
    /\ dataFile' = IF frame.file = "data" THEN CorruptFile ELSE dataFile
    /\ historyFile' = IF frame.file = "history" THEN CorruptFile ELSE historyFile
    /\ pc' = "dump"
    /\ UNCHANGED <<pmVars, now, frame, calc, lastOp>>

\* json.dump(content, f) and the end of the with block
step_dump ==
    /\ pc = "dump"
    /\ dataFile' = IF frame.file = "data" THEN Dump(frame.content) ELSE dataFile
    /\ historyFile' = IF frame.file = "history" THEN Dump(frame.content)
                      ELSE historyFile
    /\ pc' = IF frame.next = "done" THEN "idle" ELSE frame.next
    /\ lastOp' = IF frame.next = "done" THEN [lastOp EXCEPT !.outcome = "done"]
                 ELSE lastOp
    /\ UNCHANGED <<pmVars, now, frame, calc>>

\* close_position: remove_position(pos_id) down to its save_positions
step_remove_position ==
    /\ pc = "remove_position"
    /\ frame' = [id |-> frame.id, file |-> "data",
                 content |-> remove_position(dataFile, frame.id).data,
                 before |-> dataFile, next |-> "done"]
    /\ pc' = "open"
    /\ UNCHANGED <<cliVars, pmVars, now, calc, lastOp>>

\* the process dies inside a handler; the files stay as they are, and frame
\* keeps what was in flight
crash ==
    /\ pc \in {"open", "dump", "remove_position"}
    /\ pc' = "crashed"
    /\ lastOp' = [lastOp EXCEPT !.outcome = "crashed"]
    /\ UNCHANGED <<cliVars, pmVars, now, frame, calc>>

NextSteps ==
    \/ \E t \in OptionTypes, b \in Bands, d \in Deltas, s \in Sizes, c \in Answers :
          step_new_trade(t, b, d, s, c)
    \/ \E i \in Ids, d \in Deltas, c \in Answers : step_update_delta(i, d, c)
    \/ \E i \in Ids, c \in Answers : step_close_position(i, c)
    \/ step_open
    \/ step_dump
    \/ step_remove_position

SpecSteps == Init /\ [][NextSteps]_vars

NextCrash == NextSteps \/ crash

SpecCrash == Init /\ [][NextCrash]_vars

(* ------------------- one hedge computation (SpecMath) ------------------ *)
\* The decision of update_delta (run.py) and Position.check_rehedge
\* (positions.py) are pure in the position and the observed delta: here each is
\* applied once to inputs drawn from the bounded sets below.
MathSizes == 1..MaxSize
MathBands == 0..MaxBand
MathDeltas == (-MaxDelta)..MaxDelta
MathHedges == (-(MaxSize * MaxDelta))..(MaxSize * MaxDelta)

CalcInputs ==
    [fn : {"input"}, type : OptionTypes, size : MathSizes, band : MathBands,
     hedge : MathHedges, delta : MathDeltas]

InitMath ==
    /\ dataFile = MissingFile
    /\ historyFile = MissingFile
    /\ positionsFile = MissingFile
    /\ pmHistoryFile = MissingFile
    /\ mainPositions = <<>>
    /\ selected = 0
    /\ now = 0
    /\ pc = "idle"
    /\ frame = NoFrame
    /\ lastOp = NoOp
    /\ calc \in CalcInputs

\* run.py update_delta up to the alert, on the position the inputs describe
calc_update_delta ==
    /\ calc.fn = "input"
    /\ LET position == [id |-> 1, type |-> calc.type, size |-> calc.size,
                        band |-> calc.band, current_hedge_pos |-> calc.hedge,
                        trades_count |-> 0, last_delta |-> 0]
           r == decision(position, calc.delta)
       IN  calc' = [fn |-> "update_delta", type |-> calc.type, size |-> calc.size,
                    band |-> calc.band, hedge |-> calc.hedge, delta |-> calc.delta,
                    target |-> r.target, needed |-> r.needed,
                    action |-> r.action, amount |-> r.amount]
    /\ UNCHANGED <<cliVars, pmVars, now, stepVars, lastOp>>

\* positions.py Position.check_rehedge, on the position the inputs describe
calc_check_rehedge ==
    /\ calc.fn = "input"
    /\ LET pos == [id |-> 1, option_type |-> calc.type, size |-> calc.size,
                   entry_delta |-> 0, band |-> calc.band,
                   current_hedge |-> calc.hedge, rehedge_count |-> 0,
                   is_active |-> TRUE, binance_symbol |-> "None"]
           r == check_rehedge(pos, calc.delta)
       IN  calc' = [fn |-> "check_rehedge", type |-> calc.type, size |-> calc.size,
                    band |-> calc.band, hedge |-> calc.hedge, delta |-> calc.delta,
                    target |-> calculate_target_hedge(pos, calc.delta),
                    needed |-> r.needed, action |-> r.action, amount |-> r.amount]
    /\ UNCHANGED <<cliVars, pmVars, now, stepVars, lastOp>>

\* the inputs of a creation: the observed delta is the entry delta
EntryOf(fn, entry_hedge) ==
    [fn |-> fn, type |-> calc.type, size |-> calc.size, band |-> calc.band,
     hedge |-> calc.hedge, delta |-> calc.delta, entry_hedge |-> entry_hedge]

\* run.py new_trade, "2. CALCULATE STARTING HEDGE"
calc_new_trade ==
    /\ calc.fn = "input"
    /\ calc' = EntryOf("new_trade", required_hedge(calc.type, calc.size, calc.delta))
    /\ UNCHANGED <<cliVars, pmVars, now, stepVars, lastOp>>

\* tui.py NewPositionModal.on_add, "Calculate initial hedge"
calc_on_add ==
    /\ calc.fn = "input"
    /\ calc' = EntryOf("on_add", initial_hedge(calc.type, calc.size, calc.delta))
    /\ UNCHANGED <<cliVars, pmVars, now, stepVars, lastOp>>

\* positions.py Position.target_hedge of a position entered at this delta
calc_target_hedge ==
    /\ calc.fn = "input"
    /\ calc' = EntryOf("target_hedge",
                       Position_target_hedge([option_type |-> calc.type,
                                              size |-> calc.size,
                                              entry_delta |-> calc.delta]))
    /\ UNCHANGED <<cliVars, pmVars, now, stepVars, lastOp>>

NextMath ==
    \/ calc_update_delta
    \/ calc_check_rehedge
    \/ calc_new_trade
    \/ calc_on_add
    \/ calc_target_hedge

SpecMath == InitMath /\ [][NextMath]_vars

(* ============================= the claims ============================= *)
Active == load_positions(dataFile)
Archived == load_positions(historyFile)

\* C1: in the CLI, the stored current_hedge_pos and trades_count of an active
\* position change only in an update_delta step on that id in which
\* |target - current_hedge_pos| > band and the operator answered 'y'; every
\* other step leaves both fields of every position that stays active as they were.
C1_HedgeChangesOnlyOnConfirmedRehedge ==
    [][\A i \in 1..Len(Active) :
          LET p == Active[i] IN
          HasPosition(dataFile', p.id) =>
             LET q == get_position_by_id(dataFile', p.id) IN
             (q.current_hedge_pos # p.current_hedge_pos
                 \/ q.trades_count # p.trades_count)
             => /\ lastOp'.op = "update_delta"
                /\ lastOp'.id = p.id
                /\ abs(target_hedge(p, lastOp'.delta) - p.current_hedge_pos) > p.band
                /\ lastOp'.confirm \in {"y", "Y"}]_vars

\* C1 witness: a confirmed rehedge has been stored while a second position is active
C1_Witness ==
    /\ lastOp.op = "update_delta" /\ lastOp.outcome = "rehedged"
    /\ Len(Active) = 2
    /\ get_position_by_id(dataFile, lastOp.id).trades_count = 1

\* C3 (as claimed, for the CLI generator): the id generate_id() gave to the
\* position new_trade has just saved is the id of no archived position and of
\* no other active position.
C3_GeneratedIdIsFresh ==
    (lastOp.op = "new_trade" /\ lastOp.outcome = "saved")
    => /\ lastOp.id \notin IdsOf(Archived)
       /\ Cardinality({i \in 1..Len(Active) : Active[i].id = lastOp.id}) = 1

\* C4: in the CLI, a confirmed close_position(id) of an active id leaves no
\* active record with that id and adds exactly one entry to the history, at
\* the end, with the closed id and an end_time.
C4_CloseArchivesOnce ==
    [][(lastOp'.op = "close_position" /\ lastOp'.outcome = "archived")
       => /\ ~HasPosition(dataFile', lastOp'.id)
          /\ Len(load_positions(historyFile')) = Len(Archived) + 1
          /\ LET e == load_positions(historyFile')[Len(Archived) + 1] IN
                /\ e.id = lastOp'.id
                /\ "end_time" \in DOMAIN e]_vars

\* C4 witness: a close has been archived and another position is still active
C4_Witness ==
    /\ lastOp.op = "close_position" /\ lastOp.outcome = "archived"
    /\ Len(Archived) = 1 /\ Len(Active) = 1
    /\ Archived[1].id = lastOp.id

\* C7 (as claimed): after every update_delta on an active position the stored
\* last_delta is the observed delta, whatever the decision and the answer.
C7_LastDeltaAlwaysStored ==
    (lastOp.op = "update_delta" /\ lastOp.outcome # "not_found")
    => get_position_by_id(dataFile, lastOp.id).last_delta = lastOp.delta

\* C2 (as claimed): a manual delta entry that the operator has not confirmed
\* as executed changes neither the detail screen's position nor the
\* positions file.
C2_ManualDeltaWaitsForConfirmation ==
    [][(lastOp'.op = "apply_manual_delta" /\ lastOp'.confirm \notin {"y", "Y"})
       => /\ mainPositions' = mainPositions
          /\ positionsFile' = positionsFile]_vars

\* C5 (as claimed): after PositionManager.close_position(id) of an active id,
\* load_positions() returns no position with that id, and the history has
\* exactly one new entry, for that id, with is_active = false.
C5_ClosedLeavesActiveSet ==
    [][(lastOp'.op = "on_close" /\ lastOp'.outcome = "archived")
       => /\ lastOp'.id \notin IdsOf(PM_load_positions(positionsFile'))
          /\ Len(load_positions(pmHistoryFile'))
                = Len(load_positions(pmHistoryFile)) + 1
          /\ LET e == load_positions(pmHistoryFile')[Len(load_positions(pmHistoryFile')) ]
             IN  e.id = lastOp'.id /\ ~e.is_active]_vars

\* C17: in the CLI, update_delta(id) and close_position(id) with an id that is
\* not active (never created, or closed before) report not-found, ask for no
\* delta and no confirmation, and leave the active file and the history file
\* as they were; a second close of an id adds no second history entry.
C17_CliAbsentIdIsNotFound ==
    [][(lastOp'.op \in {"update_delta", "close_position"}
          /\ lastOp'.id \notin IdsOf(Active))
       => /\ lastOp'.outcome = "not_found"
          /\ lastOp'.delta = 0 /\ lastOp'.confirm = ""
          /\ dataFile' = dataFile
          /\ historyFile' = historyFile]_vars

\* C17 witness: a close of an id that was closed before has reported
\* not-found, and the history holds its one entry
C17_Witness ==
    /\ lastOp.op = "close_position" /\ lastOp.outcome = "not_found"
    /\ Len(Archived) = 1 /\ Archived[1].id = lastOp.id
    /\ Len(Active) = 1

C26_ArchivedEntryIsLastState ==
    [][(lastOp'.op = "close_position" /\ lastOp'.outcome = "archived")
       => LET p == get_position_by_id(dataFile, lastOp'.id)
              e == load_positions(historyFile')[Len(load_positions(historyFile'))]
          IN  /\ DOMAIN e = DOMAIN p \cup {"end_time"}
              /\ \A k \in DOMAIN p : e[k] = p[k]
              /\ e.end_time = now]_vars

\* C26 witness: the archived entry is of a position that was rehedged once
\* and observed at another delta than its entry delta
C26_Witness ==
    /\ lastOp.op = "close_position" /\ lastOp.outcome = "archived"
    /\ Len(Archived) = 1
    /\ Archived[1].trades_count = 1 /\ Archived[1].last_delta = 3
    /\ Archived[1].current_hedge_pos = -6

\* C18 (as claimed): an id that is in the archive and not active is not
\* active after any later step.
C18_ClosedIsNeverReactivated ==
    [][\A id \in IdsOf(Archived) \ IdsOf(Active) : id \notin IdsOf(Active')]_vars

(* ----------------------------- SpecRound ------------------------------- *)
\* C21 (as claimed): a confirmed rehedge stores as current hedge exactly the
\* target computed from the observed delta and adds exactly 1 to the rehedge
\* counter; the counter of a position is never negative and never decreases.
C21_RehedgeStoresTargetExactly ==
    [][/\ (lastOp'.op = "update_delta" /\ lastOp'.outcome = "rehedged")
            => LET p == get_position_by_id(dataFile, lastOp'.id)
                   q == get_position_by_id(dataFile', lastOp'.id)
               IN  /\ q.current_hedge_pos = target_hedge(p, lastOp'.delta)
                   /\ q.trades_count = p.trades_count + 1
       /\ \A i \in 1..Len(Active) :
             /\ Active[i].trades_count >= 0
             /\ HasPosition(dataFile', Active[i].id)
                   => get_position_by_id(dataFile', Active[i].id).trades_count
                         >= Active[i].trades_count]_vars

\* C27 (as claimed): right after a confirmed rehedge for the observed delta
\* d, an update_delta of the same position with the same d finds the
\* position inside its band (band >= 0): no rehedge is proposed and the
\* stored hedge and counter stay as they are.
C27_RehedgeRestoresNeutrality ==
    [][(/\ lastOp.op = "update_delta" /\ lastOp.outcome = "rehedged"
        /\ lastOp'.op = "update_delta" /\ lastOp'.id = lastOp.id
        /\ lastOp'.delta = lastOp.delta
        /\ get_position_by_id(dataFile, lastOp.id).band >= 0)
       => /\ decision(get_position_by_id(dataFile, lastOp.id), lastOp.delta).diff = 0
          /\ lastOp'.outcome = "safe"
          /\ dataFile' = dataFile]_vars

(* ---------------------------- SpecScenario ----------------------------- *)
\* C23: the worked example, in units of 0.0002: creating the call stores
\* current hedge -250 (-0.05); observing 275 (0.55) on it gives target -275,
\* diff -25, a needed SELL of 25 (0.005 > band), and after the confirmation
\* hedge -275 (-0.055) and counter 1; observing 260 (0.52) then gives target
\* -260, diff +15 (0.003 < band), not needed, last_delta 260, hedge still
\* -275 and counter still 1.
C23_WorkedExample ==
    [][/\ (lastOp'.op = "new_trade" /\ lastOp'.outcome = "saved")
            => get_position_by_id(dataFile', lastOp'.id).current_hedge_pos = -250
       /\ (lastOp'.op = "update_delta" /\ lastOp'.outcome # "not_found")
            => LET p == get_position_by_id(dataFile, lastOp'.id)
                   q == get_position_by_id(dataFile', lastOp'.id)
                   r == decision(p, lastOp'.delta)
               IN  /\ (p.current_hedge_pos = -250 /\ lastOp'.delta = 275)
                        => /\ r = [target |-> -275, diff |-> -25, needed |-> TRUE,
                                   action |-> "SELL / SHORT", amount |-> 25]
                           /\ lastOp'.outcome \in {"rehedged", "declined"}
                           /\ lastOp'.confirm = "y"
                                => /\ q.current_hedge_pos = -275
                                   /\ q.trades_count = p.trades_count + 1
                   /\ (p.current_hedge_pos = -275 /\ lastOp'.delta = 260)
                        => /\ r.target = -260 /\ r.diff = 15 /\ ~r.needed
                           /\ lastOp'.outcome = "safe"
                           /\ q.last_delta = 260
                           /\ q.current_hedge_pos = -275
                           /\ q.trades_count = p.trades_count]_vars

\* C23 witness: the example has run to its end on position 1
C23_Witness ==
    /\ lastOp.op = "update_delta" /\ lastOp.id = 1 /\ lastOp.outcome = "safe"
    /\ HasPosition(dataFile, 1)
    /\ get_position_by_id(dataFile, 1).current_hedge_pos = -275
    /\ get_position_by_id(dataFile, 1).trades_count = 1
    /\ get_position_by_id(dataFile, 1).last_delta = 260

(* ----------------------------- SpecMath -------------------------------- *)
Computed == calc.fn \in {"update_delta", "check_rehedge"}
IsBuy(action) == action \in {"BUY", "BUY / LONG"}
IsSell(action) == action \in {"SELL", "SELL / SHORT"}

\* C9: the rehedge decision is 'needed' exactly when
\* |target_hedge - current_hedge| > band: not needed when the difference
\* equals the band, needed for every larger one (update_delta and
\* Position.check_rehedge).
C9_BandIsStrict ==
    Computed =>
       /\ calc.needed <=> (abs(calc.target - calc.hedge) > calc.band)
       /\ abs(calc.target - calc.hedge) = calc.band => ~calc.needed
       /\ abs(calc.target - calc.hedge) >= calc.band + 1 => calc.needed

\* C9 witness: a difference exactly on a positive band, judged by update_delta
C9_Witness ==
    /\ calc.fn = "update_delta"
    /\ calc.band > 0
    /\ abs(calc.target - calc.hedge) = calc.band
    /\ ~calc.needed

SignOf(option_type) == IF option_type = "call" THEN -1 ELSE 1

\* C11 (as claimed): Position.calculate_target_hedge gives the same target for
\* d and for -d, a target <= 0 for a call and >= 0 for a put.
C11_PMTargetTakesAbsOfDelta ==
    calc.fn = "check_rehedge" =>
       /\ calc.target = calculate_target_hedge(
                            [option_type |-> calc.type, size |-> calc.size],
                            -calc.delta)
       /\ calc.type = "call" => calc.target <= 0
       /\ calc.type = "put" => calc.target >= 0

\* C12: in the CLI update_delta the target is -(size * |d|) for a call and
\* +(size * |d|) for a put, whatever the sign of the observed delta d.
C12_CliTargetTakesAbsOfDelta ==
    calc.fn = "update_delta" =>
       /\ calc.target = SignOf(calc.type) * calc.size * abs(calc.delta)
       /\ calc.target = target_hedge([type |-> calc.type, size |-> calc.size],
                                     -calc.delta)

\* C12 witness: a negative observed delta on a call gave a short target
C12_Witness ==
    /\ calc.fn = "update_delta"
    /\ calc.type = "call" /\ calc.delta < 0
    /\ calc.target = -(calc.size * (-calc.delta)) /\ calc.target < 0

\* C13 (as claimed): the hedge stored at creation (new_trade, on_add) and
\* Position.target_hedge are size * |entry_delta| in magnitude, short for a
\* call and long for a put, for every size > 0 and every entry delta.
C13_EntryHedgeSignFollowsType ==
    calc.fn \in {"new_trade", "on_add", "target_hedge"} =>
       calc.entry_hedge = SignOf(calc.type) * calc.size * abs(calc.delta)

(* ----------------------------- SpecCreate ------------------------------ *)
\* C14 (as claimed): every position in the active store, of the CLI and of
\* the PositionManager, has size > 0 and band > 0, because creation rejects
\* any other size or band.
C14_StoredSizeAndBandPositive ==
    /\ \A i \in 1..Len(load_positions(dataFile)) :
          /\ load_positions(dataFile)[i].size > 0
          /\ load_positions(dataFile)[i].band > 0
    /\ \A i \in 1..Len(PM_load_positions(positionsFile)) :
          /\ PM_load_positions(positionsFile)[i].size > 0
          /\ PM_load_positions(positionsFile)[i].band > 0

\* C20: listing the active positions of a missing or unreadable file gives
\* the empty sequence, in the CLI and in PositionManager, and a create on
\* such a file stores an active set that holds the new position and nothing
\* else.
C20_UnreadableStoreListsEmpty ==
    [][/\ dataFile.st # "ok" => load_positions(dataFile) = <<>>
       /\ positionsFile.st # "ok" => PM_load_positions(positionsFile) = <<>>
       /\ (dataFile.st # "ok" /\ lastOp'.op = "new_trade"
              /\ lastOp'.outcome = "saved")
            => /\ Len(load_positions(dataFile')) = 1
               /\ load_positions(dataFile')[1].id = lastOp'.id
       /\ (positionsFile.st # "ok" /\ lastOp'.op = "on_add"
              /\ lastOp'.outcome = "saved")
            => /\ Len(PM_load_positions(positionsFile')) = 1
               /\ PM_load_positions(positionsFile')[1].id = lastOp'.id
               /\ mainPositions' = PM_load_positions(positionsFile')]_vars

\* C20 witness: both files were found unreadable with a record in them; the
\* CLI has created a trade and its file holds that trade alone, while the
\* PositionManager file is still as found
C20_Witness ==
    /\ positionsFile = Unreadable(<<OldPosition>>)
    /\ lastOp.op = "new_trade" /\ lastOp.outcome = "saved"
    /\ dataFile.st = "ok" /\ Len(dataFile.data) = 1
    /\ dataFile.data[1].id = lastOp.id

\* C22: a created position is added to the active set as one record, after
\* the records that were there, with rehedge counter 0, active, and the
\* entry hedge (size * entry delta, short for a call) as current hedge; a
\* new_trade whose starting hedge the operator does not confirm writes nothing.
C22_CreatedPositionStartsClean ==
    [][/\ (lastOp'.op = "new_trade" /\ lastOp'.confirm \notin {"y", "Y"})
            => /\ dataFile' = dataFile
               /\ historyFile' = historyFile
       /\ (lastOp'.op = "new_trade" /\ lastOp'.confirm \in {"y", "Y"})
            => LET before == load_positions(dataFile)
                   after == load_positions(dataFile')
                   new == after[Len(after)]
               IN  /\ Len(after) = Len(before) + 1
                   /\ SubSeq(after, 1, Len(before)) = before
                   /\ new.id = lastOp'.id
                   /\ new.trades_count = 0
                   /\ new.current_hedge_pos
                         = SignOf(new.type) * fl(new.size * new.last_delta)
       /\ (lastOp'.op = "on_add" /\ lastOp'.outcome = "saved")
            => LET before == PM_load_positions(positionsFile)
                   after == PM_load_positions(positionsFile')
                   new == after[Len(after)]
               IN  /\ Len(after) = Len(before) + 1
                   /\ SubSeq(after, 1, Len(before)) = before
                   /\ new.id = lastOp'.id
                   /\ new.is_active /\ new.rehedge_count = 0
                   /\ new.current_hedge
                         = SignOf(new.option_type) * fl(new.size * new.entry_delta)]_vars

\* C22 witness: a second trade has been stored by new_trade with a negative
\* size, and the form has stored a position
C22_Witness ==
    /\ lastOp.op = "new_trade" /\ lastOp.outcome = "saved"
    /\ Len(load_positions(dataFile)) = 2
    /\ load_positions(dataFile)[2].size < 0
    /\ load_positions(dataFile)[2].current_hedge_pos = 2
    /\ Len(PM_load_positions(positionsFile)) = 1

(* ------------------------------- SpecPM -------------------------------- *)
PMActive == PM_load_positions(positionsFile)

\* C15 (as claimed): PositionManager.add_position of an id that is already
\* active fails with DuplicateId and changes nothing, so no two active
\* records ever have the same id.
C15_NoDuplicateActiveId ==
    /\ \A i, j \in 1..Len(PMActive) : PMActive[i].id = PMActive[j].id => i = j
    /\ (lastOp.op = "add_position" /\ lastOp.outcome = "returned")
          => Cardinality({i \in 1..Len(PMActive) : PMActive[i].id = lastOp.id}) = 1

\* C16 (as claimed): PositionManager.update_position and close_position with
\* an id that is not active report NotFound and leave the positions file and
\* the history file as they were.
C16_PMAbsentIdIsNotFound ==
    [][(lastOp'.op \in {"update_position", "close_position"}
          /\ lastOp'.id \notin IdsOf(PMActive))
       => /\ lastOp'.outcome = "not_found"
          /\ positionsFile' = positionsFile
          /\ pmHistoryFile' = pmHistoryFile]_vars

\* C19 (as claimed): every operation keeps the entries the history file
\* holds, in their order and unmodified, whether or not the file can be read;
\* a close puts its one entry after them.
C19_ArchiveIsAppendOnly ==
    [][/\ Len(pmHistoryFile'.data) >= Len(pmHistoryFile.data)
       /\ SubSeq(pmHistoryFile'.data, 1, Len(pmHistoryFile.data)) = pmHistoryFile.data
       /\ (lastOp'.op = "close_position" /\ lastOp'.id \in IdsOf(PMActive))
            => Len(pmHistoryFile'.data) = Len(pmHistoryFile.data) + 1]_vars

\* the records of a list, as a set
Records(positions) == {positions[i] : i \in 1..Len(positions)}

\* C24: in the PositionManager variant no call makes the set of ids in the
\* positions file smaller: save_positions writes back every record the file
\* held, with its stored fields, except the one update_position replaces;
\* the record close_position leaves out of its list is written back too.
C24_PMFileNeverLosesARecord ==
    [][/\ IdsOf(load_positions(positionsFile))
             \subseteq IdsOf(load_positions(positionsFile'))
       /\ Len(load_positions(positionsFile')) >= Len(load_positions(positionsFile))
       /\ lastOp'.op \in {"add_position", "close_position"}
            => Records(load_positions(positionsFile))
                  \subseteq Records(load_positions(positionsFile'))
       /\ lastOp'.op = "update_position"
            => {r \in Records(load_positions(positionsFile)) : r.id # lastOp'.id}
                  \subseteq Records(load_positions(positionsFile'))]_vars

\* C24 witness: a position has been closed and archived, and its record is
\* still in the positions file beside another one
C24_Witness ==
    /\ lastOp.op = "close_position"
    /\ Len(load_positions(pmHistoryFile)) = 1
    /\ load_positions(pmHistoryFile)[1].id = lastOp.id
    /\ lastOp.id \in IdsOf(load_positions(positionsFile))
    /\ Cardinality(IdsOf(load_positions(positionsFile))) = 2

(* ------------------------ SpecSteps, SpecCrash ------------------------- *)
\* C6 (as claimed): in every state of the store, between the file writes of a
\* close included, no id is in both the active file and the history file, and
\* the id being closed is in one of them.
C6_ActiveAndArchiveDisjoint ==
    /\ IdsOf(Active) \cap IdsOf(Archived) = {}
    /\ (lastOp.op = "close_position" /\ lastOp.outcome = "running")
          => lastOp.id \in IdsOf(Active) \cup IdsOf(Archived)

\* C8 (as claimed): after a crash inside a handler, a file that held a
\* non-empty list before the write in flight holds either that list or the
\* complete list the write was to store.
C8_CrashLeavesOldOrNewFile ==
    (pc = "crashed" /\ frame.before.st = "ok" /\ frame.before.data # <<>>)
    => FileOf(frame.file) \in {frame.before, Dump(frame.content)}
====
